---- MODULE Spec2Model ----
(***************************************************************************)
(* Model of legal_agents_team.py: a Streamlit script (main) that is re-run *)
(* from top to bottom on every user interaction.  st.session_state         *)
(* survives between runs; everything drawn on the page belongs to the last *)
(* run only.  One action = one user interaction followed by one complete   *)
(* run of main().  The external collaborators (Qdrant, Knowledge.add_      *)
(* content, Agent/Team construction, Team.run) are opaque: each call       *)
(* either raises or returns, chosen nondeterministically.                  *)
(*                                                                         *)
(* The source's Chinese labels are written in ASCII:                       *)
(*   contract_review = 合同审查     legal_research  = 法律研究             *)
(*   risk_assessment = 风险评估     compliance_check = 合规性检查          *)
(*   custom_query    = 自定义查询                                          *)
(*   legal_researcher = 法律研究员  contract_analyst = 合同分析师          *)
(*   legal_strategist = 法律策略师                                         *)
(***************************************************************************)
EXTENDS Integers, Sequences, FiniteSets, TLC

VARIABLES
    session_state,  \* st.session_state (init_session_state)
    widgets,        \* values held by the uploader, the selectbox and the text area
    button,         \* what st.button returned in the last run
    rendered,       \* input widgets drawn by the last run
    messages,       \* st.success/info/warning/error emitted by the last run
    tabs,           \* markdown written into the three tabs by the last run
    invocations,    \* legal_team.run calls of the last run: prompt and result
    ingest_log,     \* per filename: outcomes of its last process_document calls
    invoked         \* Team.run has been called in this session

vars == <<session_state, widgets, button, rendered, messages, tabs,
          invocations, ingest_log, invoked>>

----------------------------------------------------------------------------
(* Bounds and input domains *)

IngestWindow == 2     \* process_document outcomes remembered per filename

None == [kind |-> "None"]          \* Python None, for objects
NoneStr == "<None>"                \* Python None, in a string-valued field
Raise == [kind |-> "raise"]        \* an external call raised

DEFAULT_BASE_URL == "https://api.zhizengzeng.com/v1"
COLLECTION_NAME == "legal_documents"

\* what the user types: one value per credential; clearing the base URL box
\* stands for every edit that leaves a stored value alone
OpenAIKeys == {"sk-1"}
BaseUrls == {""}
QdrantKeys == {"qk-1"}
QdrantUrls == {"https://qdrant"}
FileNames == {"a.pdf", "b.pdf"}
Files == {[name |-> "a.pdf", content |-> 1], [name |-> "a.pdf", content |-> 2],
          [name |-> "b.pdf", content |-> 1]}
Questions == {"", "q1"}

AnalysisTypes == <<"contract_review", "legal_research", "risk_assessment",
                   "compliance_check", "custom_query">>

\* what Team.run can return: a RunOutput with or without consolidated content
RunOutputs ==
    { [kind |-> "RunOutput", content |-> "t1", messages |-> <<>>],
      [kind |-> "RunOutput", content |-> "",
       messages |-> << [role |-> "user", content |-> "u1"],
                       [role |-> "assistant", content |-> ""],
                       [role |-> "assistant", content |-> "m1"] >>] }

----------------------------------------------------------------------------
(* Python truthiness *)

TruthyStr(s) == s # NoneStr /\ s # ""
TruthyObj(o) == o # None

----------------------------------------------------------------------------
(* init_session_state *)

init_session_state ==
    [ openai_api_key  |-> NoneStr,
      openai_base_url |-> DEFAULT_BASE_URL,
      qdrant_api_key  |-> NoneStr,
      qdrant_url      |-> NoneStr,
      vector_db       |-> None,
      legal_team      |-> None,
      knowledge_base  |-> None,
      processed_files |-> {} ]

DefaultWidgets ==
    [ uploaded_file |-> None,
      analysis_type |-> AnalysisTypes[1],
      user_query    |-> "" ]

----------------------------------------------------------------------------
(* main, sidebar: the four credential inputs.  An empty input leaves the   *)
(* stored value alone, so a stored credential is never cleared.            *)

\* value= of a text input: the stored credential, or the empty string
TextInputDefault(stored) == IF TruthyStr(stored) THEN stored ELSE ""

\* what the four text inputs return when the user has typed nothing new
Inputs(ss) ==
    [ openai_key |-> TextInputDefault(ss.openai_api_key),
      base_url   |-> ss.openai_base_url,
      qdrant_key |-> TextInputDefault(ss.qdrant_api_key),
      qdrant_url |-> TextInputDefault(ss.qdrant_url) ]

Credentials(ss, typed) ==
    [ss EXCEPT !.openai_api_key  = IF typed.openai_key # "" THEN typed.openai_key ELSE @,
               !.openai_base_url = IF typed.base_url # "" THEN typed.base_url ELSE @,
               !.qdrant_api_key  = IF typed.qdrant_key # "" THEN typed.qdrant_key ELSE @,
               !.qdrant_url      = IF typed.qdrant_url # "" THEN typed.qdrant_url ELSE @]

QdrantConfigured(ss) == TruthyStr(ss.qdrant_api_key) /\ TruthyStr(ss.qdrant_url)

(* init_qdrant: ok = FALSE is the Qdrant(...) constructor raising *)
init_qdrant_lost(ss, ok) == None

init_qdrant(ss, ok) ==
    IF ~(TruthyStr(ss.qdrant_api_key) /\ TruthyStr(ss.qdrant_url)) THEN None
    ELSE IF ok
         THEN [ kind       |-> "Qdrant",
                collection |-> COLLECTION_NAME,
                url        |-> ss.qdrant_url,
                api_key    |-> ss.qdrant_api_key ]
         ELSE None

\* main calls init_qdrant only while no handle is stored
NeedsQdrant(ss) == QdrantConfigured(ss) /\ ~TruthyObj(ss.vector_db)

ConnectQdrant(ss, ok) ==
    IF NeedsQdrant(ss) THEN [ss EXCEPT !.vector_db = init_qdrant(ss, ok)] ELSE ss

QdrantMessages(ss, ok) ==
    IF ~NeedsQdrant(ss) THEN {}
    ELSE (IF ok THEN {} ELSE {"qdrant_failed"})
         \cup (IF TruthyObj(init_qdrant(ss, ok)) THEN {"qdrant_connected"} ELSE {})

\* the upload and analysis-options section of the sidebar is drawn
SidebarReady(ss) == TruthyStr(ss.openai_api_key) /\ TruthyObj(ss.vector_db)

----------------------------------------------------------------------------
(* process_document and the upload branch of main *)

\* id: the identity of the Knowledge object this call constructs
process_document(uploaded_file, vector_db, ss, id, ok) ==
    IF ~TruthyStr(ss.openai_api_key) THEN Raise
    ELSE IF ok
         THEN [ kind |-> "Knowledge", id |-> id, vector_db |-> vector_db,
                content |-> uploaded_file ]
         ELSE Raise

NeedsProcessing_always(uploaded_file, ss) == TRUE

NeedsProcessing(uploaded_file, ss) ==
    uploaded_file.name \notin ss.processed_files

MarkProcessed_forgotten(ss, uploaded_file, knowledge_base) ==
    [ss EXCEPT !.knowledge_base = knowledge_base]

MarkProcessed(ss, uploaded_file, knowledge_base) ==
    [ss EXCEPT !.knowledge_base = knowledge_base,
               !.processed_files = @ \cup {uploaded_file.name}]

Specialist(name, role, ss) ==
    [ name |-> name, role |-> role,
      knowledge |-> ss.knowledge_base.id, search_knowledge |-> TRUE ]

BuildTeam(ss) ==
    [ kind |-> "Team",
      name |-> "team_lead",
      members |-> << Specialist("legal_researcher", "legal_research_expert", ss),
                     Specialist("contract_analyst", "contract_analysis_expert", ss),
                     Specialist("legal_strategist", "legal_strategy_expert", ss) >>,
      knowledge |-> ss.knowledge_base.id, search_knowledge |-> TRUE ]

\* the file the script sees: the uploader exists only when the sidebar is ready
UploadedFile(ss, w) == IF SidebarReady(ss) THEN w.uploaded_file ELSE None

WillProcess(ss, w) ==
    /\ TruthyObj(UploadedFile(ss, w))
    /\ NeedsProcessing(UploadedFile(ss, w), ss)

\* iok: Knowledge.add_content returned; tok: the Agent/Team constructors returned
UploadBranch(ss, w, id, iok, tok) ==
    LET f  == UploadedFile(ss, w)
        kb == process_document(f, ss.vector_db, ss, id, iok)
        s1 == MarkProcessed(ss, f, kb)
    IN  IF ~WillProcess(ss, w) \/ kb = Raise THEN ss
        ELSE IF tok THEN [s1 EXCEPT !.legal_team = BuildTeam(s1)]
        ELSE s1

UploadMessages(ss, w, id, iok, tok) ==
    LET f  == UploadedFile(ss, w)
        kb == process_document(f, ss.vector_db, ss, id, iok)
    IN  IF ~SidebarReady(ss) THEN {"warn_credentials"}
        ELSE IF ~TruthyObj(f) THEN {}
        ELSE IF ~NeedsProcessing(f, ss) THEN {"processed_team_ready"}
        ELSE IF ~TruthyStr(ss.openai_api_key) THEN {"upload_error"}
        ELSE IF kb = Raise THEN {"doc_load_error", "doc_process_error", "upload_error"}
        ELSE IF tok THEN {"doc_stored", "team_initialized"}
        ELSE {"doc_stored", "upload_error"}

\* the last IngestWindow entries of a log
Last(log, n) == IF Len(log) <= n THEN log ELSE SubSeq(log, Len(log) - n + 1, Len(log))

UploadLog(log, ss, w, iok) ==
    IF WillProcess(ss, w)
    THEN [log EXCEPT ![UploadedFile(ss, w).name] = Last(Append(@, iok), IngestWindow)]
    ELSE log

\* every successful process_document adds one name to processed_files, so
\* this number is new for each Knowledge object
NextKnowledgeId(ss) == Cardinality(ss.processed_files) + 1

----------------------------------------------------------------------------
(* main, content area: the category table and the three prompts *)

analysis_configs_swapped ==
    [ contract_review  |-> [ query  |-> "review_contract",
                             agents |-> <<"contract_analyst">> ],
      legal_research   |-> [ query  |-> "research_cases",
                             agents |-> <<"legal_researcher">> ],
      risk_assessment  |-> [ query  |-> "analyse_risks",
                             agents |-> <<"legal_researcher", "legal_strategist">> ],
      compliance_check |-> [ query  |-> "check_compliance",
                             agents |-> <<"legal_researcher", "contract_analyst",
                                          "legal_strategist">> ],
      custom_query     |-> [ query  |-> NoneStr,
                             agents |-> <<"legal_researcher", "contract_analyst",
                                          "legal_strategist">> ] ]

analysis_configs ==
    [ contract_review  |-> [ query  |-> "review_contract",
                             agents |-> <<"contract_analyst">> ],
      legal_research   |-> [ query  |-> "research_cases",
                             agents |-> <<"legal_researcher">> ],
      risk_assessment  |-> [ query  |-> "analyse_risks",
                             agents |-> <<"contract_analyst", "legal_strategist">> ],
      compliance_check |-> [ query  |-> "check_compliance",
                             agents |-> <<"legal_researcher", "contract_analyst",
                                          "legal_strategist">> ],
      custom_query     |-> [ query  |-> NoneStr,
                             agents |-> <<"legal_researcher", "contract_analyst",
                                          "legal_strategist">> ] ]

\* which of the three branches of the content area is taken
ContentArea(ss, w) ==
    IF ~SidebarReady(ss) THEN "configure"
    ELSE IF ~TruthyObj(UploadedFile(ss, w)) THEN "upload"
    ELSE IF TruthyObj(ss.legal_team) THEN "analysis"
    ELSE "upload_to_analyse"

\* the text area exists only for the custom category
UserQuery(ss, w) ==
    IF ContentArea(ss, w) = "analysis" /\ w.analysis_type = "custom_query"
    THEN w.user_query ELSE NoneStr

RefuseRequest_never(analysis_type, user_query) == FALSE

RefuseRequest(analysis_type, user_query) ==
    analysis_type = "custom_query" /\ ~TruthyStr(user_query)

\* combined_query: the template's task for a predefined category, the user's
\* text for the custom one
CombinedQuery(analysis_type, user_query) ==
    IF analysis_type # "custom_query"
    THEN [ stage |-> "analysis", layout |-> "predefined",
           task |-> analysis_configs[analysis_type].query,
           focus |-> analysis_configs[analysis_type].agents,
           previous |-> NoneStr ]
    ELSE [ stage |-> "analysis", layout |-> "custom",
           task |-> user_query,
           focus |-> analysis_configs[analysis_type].agents,
           previous |-> NoneStr ]

KeyPointsPrompt(response, analysis_type) ==
    [ stage |-> "key_points", layout |-> "follow_up",
      task |-> "summarise_key_points",
      focus |-> analysis_configs[analysis_type].agents,
      previous |-> response.content ]

RecommendationsPrompt_chained(response, key_points_response, analysis_type) ==
    [ stage |-> "recommendations", layout |-> "follow_up",
      task |-> "recommend_actions",
      focus |-> analysis_configs[analysis_type].agents,
      previous |-> key_points_response.content ]

RecommendationsPrompt(response, key_points_response, analysis_type) ==
    [ stage |-> "recommendations", layout |-> "follow_up",
      task |-> "recommend_actions",
      focus |-> analysis_configs[analysis_type].agents,
      previous |-> response.content ]

\* what a tab shows of a RunOutput: its content, or else every non-empty
\* assistant message
IsAssistantText(m) == m.role = "assistant" /\ m.content # ""

Render(response) ==
    IF response.content # "" THEN << response.content >>
    ELSE LET kept == SelectSeq(response.messages, IsAssistantText)
         IN  [i \in 1..Len(kept) |-> kept[i].content]

TabHeaders == << "### detailed_analysis", "### key_points", "### recommendations" >>

NoTabs == << <<>>, <<>>, <<>> >>

\* the results Team.run can give in one request: the calls stop at the first raise
RunResults ==
    { << Raise >> }
    \cup { << a, Raise >> : a \in RunOutputs }
    \cup { << a, b, Raise >> : a \in RunOutputs, b \in RunOutputs }
    \cup { << a, b, c >> : a \in RunOutputs, b \in RunOutputs, c \in RunOutputs }

\* the try block of the request: res is what the successive Team.run calls give
Analyse(analysis_type, user_query, res) ==
    LET p1 == CombinedQuery(analysis_type, user_query)
        i1 == [prompt |-> p1, result |-> res[1]]
    IN  IF res[1] = Raise
        THEN [ invocations |-> << i1 >>, tabs |-> NoTabs, messages |-> {"analysis_error"} ]
        ELSE
        LET t1 == << TabHeaders[1] >> \o Render(res[1])
            i2 == [prompt |-> KeyPointsPrompt(res[1], analysis_type), result |-> res[2]]
        IN  IF res[2] = Raise
            THEN [ invocations |-> << i1, i2 >>,
                   tabs |-> << t1, << TabHeaders[2] >>, <<>> >>,
                   messages |-> {"analysis_error"} ]
            ELSE
            LET t2 == << TabHeaders[2] >> \o Render(res[2])
                i3 == [prompt |-> RecommendationsPrompt(res[1], res[2], analysis_type),
                       result |-> res[3]]
            IN  IF res[3] = Raise
                THEN [ invocations |-> << i1, i2, i3 >>,
                       tabs |-> << t1, t2, << TabHeaders[3] >> >>,
                       messages |-> {"analysis_error"} ]
                ELSE [ invocations |-> << i1, i2, i3 >>,
                       tabs |-> << t1, t2, << TabHeaders[3] >> \o Render(res[3]) >>,
                       messages |-> {} ]

NoAnalysis(msgs) == [ invocations |-> << >>, tabs |-> NoTabs, messages |-> msgs ]

\* a request reaches the coordinator in this run
WillAnalyse(ss, w, pressed) ==
    /\ ContentArea(ss, w) = "analysis"
    /\ pressed
    /\ ~RefuseRequest(w.analysis_type, UserQuery(ss, w))

Content(ss, w, pressed, res) ==
    CASE ContentArea(ss, w) = "configure" -> NoAnalysis({"info_configure"})
      [] ContentArea(ss, w) = "upload" -> NoAnalysis({"info_upload"})
      [] ContentArea(ss, w) = "upload_to_analyse" -> NoAnalysis({"info_upload_to_analyse"})
      [] OTHER ->
           IF ~pressed THEN NoAnalysis({})
           ELSE IF RefuseRequest(w.analysis_type, UserQuery(ss, w))
                THEN NoAnalysis({"warn_enter_question"})
                ELSE Analyse(w.analysis_type, UserQuery(ss, w), res)


Rendered(ss, w) ==
    (IF SidebarReady(ss) THEN {"file_uploader", "selectbox"} ELSE {})
    \cup (IF ContentArea(ss, w) = "analysis" THEN {"button"} ELSE {})
    \cup (IF ContentArea(ss, w) = "analysis" /\ w.analysis_type = "custom_query"
          THEN {"text_area"} ELSE {})

----------------------------------------------------------------------------
(* One complete run of main() with the widgets holding w; pressed is what   *)
(* st.button returns.  The outcome of each external call this run makes is  *)
(* chosen here.                                                            *)

Script(w, typed, pressed) ==
    LET ss1 == Credentials(session_state, typed)
    IN  \E qok \in (IF NeedsQdrant(ss1) THEN BOOLEAN ELSE {TRUE}) :
        LET ss2 == ConnectQdrant(ss1, qok)
            id  == NextKnowledgeId(ss2)
        IN  \E iok \in (IF WillProcess(ss2, w) THEN BOOLEAN ELSE {TRUE}) :
            \E tok \in (IF WillProcess(ss2, w) /\ iok THEN BOOLEAN ELSE {TRUE}) :
            LET ss3 == UploadBranch(ss2, w, id, iok, tok)
            IN  \E res \in (IF WillAnalyse(ss3, w, pressed) THEN RunResults ELSE {<< >>}) :
                LET c == Content(ss3, w, pressed, res)
                IN  /\ session_state' = ss3
                    /\ widgets' = [w EXCEPT !.user_query =
                                      IF "text_area" \in Rendered(ss3, w) THEN @ ELSE ""]
                    /\ button' = pressed
                    /\ rendered' = Rendered(ss3, w)
                    /\ messages' = QdrantMessages(ss1, qok)
                                   \cup UploadMessages(ss2, w, id, iok, tok)
                                   \cup c.messages
                    /\ tabs' = c.tabs
                    /\ invocations' = c.invocations
                    /\ ingest_log' = UploadLog(ingest_log, ss2, w, iok)
                    /\ invoked' = (invoked \/ c.invocations # << >>)

----------------------------------------------------------------------------
(* User interactions; each one re-runs the script *)

SetOpenAIKey ==
    \E v \in OpenAIKeys :
        /\ v # Inputs(session_state).openai_key
        /\ Script(widgets, [Inputs(session_state) EXCEPT !.openai_key = v], FALSE)

SetBaseUrl ==
    \E v \in BaseUrls :
        /\ v # Inputs(session_state).base_url
        /\ Script(widgets, [Inputs(session_state) EXCEPT !.base_url = v], FALSE)

SetQdrantKey ==
    \E v \in QdrantKeys :
        /\ v # Inputs(session_state).qdrant_key
        /\ Script(widgets, [Inputs(session_state) EXCEPT !.qdrant_key = v], FALSE)

SetQdrantUrl ==
    \E v \in QdrantUrls :
        /\ v # Inputs(session_state).qdrant_url
        /\ Script(widgets, [Inputs(session_state) EXCEPT !.qdrant_url = v], FALSE)

UploadFile ==
    \E f \in Files :
        /\ "file_uploader" \in rendered
        /\ f # widgets.uploaded_file
        /\ Script([widgets EXCEPT !.uploaded_file = f], Inputs(session_state), FALSE)

RemoveFile ==
    /\ "file_uploader" \in rendered
    /\ widgets.uploaded_file # None
    /\ Script([widgets EXCEPT !.uploaded_file = None], Inputs(session_state), FALSE)

SelectAnalysisType ==
    \E i \in 1..Len(AnalysisTypes) :
        /\ "selectbox" \in rendered
        /\ AnalysisTypes[i] # widgets.analysis_type
        /\ Script([widgets EXCEPT !.analysis_type = AnalysisTypes[i]], Inputs(session_state), FALSE)

EnterQuery ==
    \E q \in Questions :
        /\ "text_area" \in rendered
        /\ q # widgets.user_query
        /\ Script([widgets EXCEPT !.user_query = q], Inputs(session_state), FALSE)

PressAnalyse ==
    /\ "button" \in rendered
    /\ Script(widgets, Inputs(session_state), TRUE)

----------------------------------------------------------------------------

\* the page after the first run of a new session, nothing entered yet
Init ==
    /\ session_state = init_session_state
    /\ widgets = DefaultWidgets
    /\ button = FALSE
    /\ rendered = Rendered(init_session_state, DefaultWidgets)
    /\ messages = UploadMessages(init_session_state, DefaultWidgets, 1, TRUE, TRUE)
                  \cup Content(init_session_state, DefaultWidgets, FALSE, << >>).messages
    /\ tabs = NoTabs
    /\ invocations = << >>
    /\ ingest_log = [n \in FileNames |-> << >>]
    /\ invoked = FALSE

Next ==
    \/ SetOpenAIKey
    \/ SetBaseUrl
    \/ SetQdrantKey
    \/ SetQdrantUrl
    \/ UploadFile
    \/ RemoveFile
    \/ SelectAnalysisType
    \/ EnterQuery
    \/ PressAnalyse

Spec == Init /\ [][Next]_vars

----------------------------------------------------------------------------
(* Observations used by the properties *)

\* the dispatcher state the page is in after a run
DispatcherState ==
    IF ~SidebarReady(session_state) THEN "AwaitingCredentials"
    ELSE IF "button" \notin rendered THEN "AwaitingUpload"
    ELSE IF Len(invocations) = 3 /\ invocations[3].result # Raise THEN "ResultsDisplayed"
    ELSE "Ready"

\* process_document calls known for the session, as (filename, position) pairs
IngestCalls ==
    UNION { { << n, i >> : i \in 1..Len(ingest_log[n]) } : n \in FileNames }

NoIngestFailure ==
    \A n \in FileNames : \A i \in 1..Len(ingest_log[n]) : ingest_log[n][i]

AllReturned(invs) == \A i \in 1..Len(invs) : invs[i].result # Raise

Stages(invs) == [i \in 1..Len(invs) |-> invs[i].prompt.stage]

\* some line of the response's rendering is in the tab
ShowsOutput(tab, response) ==
    \E i \in 1..Len(tab) : \E j \in 1..Len(Render(response)) :
        tab[i] = Render(response)[j]

----------------------------------------------------------------------------
(* C1.  If the main analysis call returns and the key-points call raises,   *)
(* nothing of that request stays on the page: the analysis tab does not    *)
(* show the first call's output, and the dispatcher is Ready again.        *)

C1_FailedSecondCall ==
    /\ button
    /\ Len(invocations) = 2
    /\ invocations[1].result # Raise
    /\ invocations[2].result = Raise

C1_PartialResultDiscarded ==
    C1_FailedSecondCall =>
        /\ ~ShowsOutput(tabs[1], invocations[1].result)
        /\ DispatcherState = "Ready"

----------------------------------------------------------------------------
(* C2.  As claimed: a filename that is presented again and again is handed  *)
(* to process_document exactly once.  (Every run that has a not yet        *)
(* processed file in the uploader calls process_document, so a filename    *)
(* with any call at all must have exactly one.)                            *)

C2_IngestedExactlyOnce ==
    \A n \in FileNames : ingest_log[n] # << >> => Len(ingest_log[n]) = 1

(* C2, amended.  process_document is never called for a filename after a   *)
(* call for that filename has succeeded, whatever the content of the file  *)
(* presented; a filename is in processed_files exactly when its latest     *)
(* call succeeded.  Calls that fail are repeated by later runs.            *)

C2_NoIngestionAfterSuccess ==
    \A n \in FileNames :
        /\ \A i \in 1..(Len(ingest_log[n]) - 1) : ~ingest_log[n][i]
        /\ n \in session_state.processed_files
             <=> (ingest_log[n] # << >> /\ ingest_log[n][Len(ingest_log[n])])

\* a processed filename is presented again with other content, and skipped
C2_Witness ==
    /\ TruthyObj(widgets.uploaded_file)
    /\ TruthyObj(session_state.knowledge_base)
    /\ widgets.uploaded_file.name \in session_state.processed_files
    /\ session_state.knowledge_base.content.name = widgets.uploaded_file.name
    /\ session_state.knowledge_base.content # widgets.uploaded_file
    /\ "processed_team_ready" \in messages
    /\ ingest_log[widgets.uploaded_file.name] = << TRUE >>

----------------------------------------------------------------------------
(* C3.  Pressing the button with the custom category and an empty question *)
(* makes no Team.run call; the page shows the warning and the dispatcher   *)
(* stays Ready.                                                            *)

C3_EmptyCustomRequest ==
    /\ button
    /\ widgets.analysis_type = "custom_query"
    /\ ~TruthyStr(widgets.user_query)

C3_EmptyCustomQueryRefused ==
    C3_EmptyCustomRequest =>
        /\ invocations = << >>
        /\ tabs = NoTabs
        /\ "warn_enter_question" \in messages
        /\ "analysis_error" \notin messages
        /\ DispatcherState = "Ready"

C3_Witness ==
    /\ C3_EmptyCustomRequest
    /\ "warn_enter_question" \in messages
    /\ ~invoked

----------------------------------------------------------------------------
(* C4.  End to end: one filename uploaded, no call failing, category       *)
(* contract_review, the first request of the session.  Then the session    *)
(* has made exactly one process_document call and exactly the three        *)
(* Team.run calls analysis, key_points, recommendations of this run, and   *)
(* each tab holds its header followed by the rendering of its response.    *)

C4_Scenario ==
    /\ button
    /\ widgets.analysis_type = "contract_review"
    /\ TruthyObj(widgets.uploaded_file)
    /\ \A c \in IngestCalls : c[1] = widgets.uploaded_file.name
    /\ NoIngestFailure
    /\ AllReturned(invocations)

C4_Outcome ==
    /\ Cardinality(IngestCalls) = 1
    /\ Stages(invocations) = << "analysis", "key_points", "recommendations" >>
    /\ \A i \in 1..3 :
          /\ tabs[i] = << TabHeaders[i] >> \o Render(invocations[i].result)
          /\ tabs[i] # << >>

C4_EndToEnd == [][ (~invoked /\ C4_Scenario') => C4_Outcome' ]_vars

C4_Witness == C4_Scenario /\ C4_Outcome

----------------------------------------------------------------------------
(* C5.  As claimed: a vector_db handle exists exactly when the Qdrant key  *)
(* and URL are both non-empty.                                             *)

C5_HandleIffCredentials ==
    TruthyObj(session_state.vector_db) <=> QdrantConfigured(session_state)

(* C5, amended.  A handle exists exactly when key and URL are both         *)
(* non-empty and the Qdrant constructor did not raise: after every run,    *)
(* either there is a handle, or a credential is missing, or this run       *)
(* reported the failed connection.                                         *)

C5_HandleIffConstructed ==
    TruthyObj(session_state.vector_db)
        <=> (QdrantConfigured(session_state) /\ "qdrant_failed" \notin messages)

C5_Witness ==
    /\ QdrantConfigured(session_state)
    /\ TruthyObj(session_state.vector_db)
    /\ "qdrant_connected" \in messages

----------------------------------------------------------------------------
(* C6.  As claimed: every category that can be selected has a non-null     *)
(* template query and a non-empty agent list, with the agents the          *)
(* specification lists.                                                    *)

C6_ExpectedAgents ==
    [ contract_review  |-> <<"contract_analyst">>,
      legal_research   |-> <<"legal_researcher">>,
      risk_assessment  |-> <<"contract_analyst", "legal_strategist">>,
      compliance_check |-> <<"legal_researcher", "contract_analyst", "legal_strategist">>,
      custom_query     |-> <<"legal_researcher", "contract_analyst", "legal_strategist">> ]

C6_AgentsAsListed ==
    /\ analysis_configs[widgets.analysis_type].agents # << >>
    /\ analysis_configs[widgets.analysis_type].agents
         = C6_ExpectedAgents[widgets.analysis_type]

C6_EveryCategoryHasTemplate ==
    "selectbox" \in rendered =>
        /\ analysis_configs[widgets.analysis_type].query # NoneStr
        /\ C6_AgentsAsListed

(* C6, amended.  Every category has the listed, non-empty agent list.  The *)
(* four predefined categories have a non-null template query; the custom   *)
(* category has none, and a request of that category carries the user's    *)
(* non-empty question instead.  Every request names the listed agents.     *)

C6_CategoryTable ==
    "selectbox" \in rendered =>
        /\ C6_AgentsAsListed
        /\ analysis_configs[widgets.analysis_type].query = NoneStr
             <=> widgets.analysis_type = "custom_query"
        /\ invocations # << >> =>
             /\ TruthyStr(invocations[1].prompt.task)
             /\ widgets.analysis_type = "custom_query"
                  => invocations[1].prompt.task = widgets.user_query
             /\ widgets.analysis_type # "custom_query"
                  => invocations[1].prompt.task
                       = analysis_configs[widgets.analysis_type].query
             /\ \A i \in 1..Len(invocations) :
                  invocations[i].prompt.focus = C6_ExpectedAgents[widgets.analysis_type]

C6_Witness ==
    /\ widgets.analysis_type = "risk_assessment"
    /\ Len(invocations) = 3
    /\ invocations[1].prompt.task = "analyse_risks"
    /\ invocations[3].prompt.focus = <<"contract_analyst", "legal_strategist">>

----------------------------------------------------------------------------
(* C7.  Whenever a team exists, the coordinator and the three specialists  *)
(* are bound to the knowledge base the session currently holds.            *)

C7_TeamBoundToCurrentKnowledge ==
    TruthyObj(session_state.legal_team) =>
        /\ TruthyObj(session_state.knowledge_base)
        /\ session_state.legal_team.knowledge = session_state.knowledge_base.id
        /\ \A i \in 1..Len(session_state.legal_team.members) :
             session_state.legal_team.members[i].knowledge
               = session_state.knowledge_base.id

----------------------------------------------------------------------------
(* C8.  As claimed: in a request whose three calls return, each follow-up  *)
(* prompt carries the previous call's output: key points the main          *)
(* analysis, recommendations the key points.                               *)

C8_Completed == Len(invocations) = 3 /\ AllReturned(invocations)

C8_EachPromptFromPreviousCall ==
    C8_Completed =>
        /\ invocations[2].prompt.previous = invocations[1].result.content
        /\ invocations[3].prompt.previous = invocations[2].result.content

(* C8, amended.  The calls are made one after another in the order         *)
(* analysis, key points, recommendations, each only after the one before   *)
(* returned; both follow-up prompts carry the output of the main analysis. *)

C8_FollowUpsFromMainAnalysis ==
    /\ Len(invocations) <= 3
    /\ Stages(invocations)
         = SubSeq(<< "analysis", "key_points", "recommendations" >>, 1, Len(invocations))
    /\ \A i \in 1..(Len(invocations) - 1) : invocations[i].result # Raise
    /\ \A i \in 2..Len(invocations) :
         invocations[i].prompt.previous = invocations[1].result.content

C8_Witness ==
    /\ C8_Completed
    /\ invocations[1].result.content # invocations[2].result.content
    /\ invocations[3].prompt.previous = invocations[1].result.content

----------------------------------------------------------------------------
(* C9.  A request can be started only when the file in the uploader has    *)
(* been ingested and the team was built from that ingestion.               *)

C9_ReadyOnlyForIngestedFile ==
    "button" \in rendered =>
        /\ TruthyObj(widgets.uploaded_file)
        /\ widgets.uploaded_file.name \in session_state.processed_files
        /\ TruthyObj(session_state.legal_team)
        /\ TruthyObj(session_state.knowledge_base)
        /\ session_state.knowledge_base.content.name = widgets.uploaded_file.name
        /\ session_state.legal_team.knowledge = session_state.knowledge_base.id

----------------------------------------------------------------------------
(* C10.  If a filename is in processed_files then a team exists, so the    *)
(* "processed, team ready" message is shown only with a team.              *)

C10_ProcessedImpliesTeam ==
    /\ session_state.processed_files # {} => TruthyObj(session_state.legal_team)
    /\ "processed_team_ready" \in messages => TruthyObj(session_state.legal_team)

====
